---- MODULE Spec2Model ----
(***************************************************************************)
(* A model of the resilient request client of                              *)
(* apps/we-dev-client/src/utils/security.ts (class ApiClient) together     *)
(* with the observability collaborator it reports to                       *)
(* (apps/we-dev-client/src/utils/errorHandler.ts, ErrorHandler.logError),  *)
(* of the rate limiter of the same file (SecurityUtils.createRateLimiter)  *)
(* and of the metric store of PerformanceMonitor (recordMetric).           *)
(*                                                                         *)
(* Strings are modelled as sequences of one-character strings so that      *)
(* startsWith, concatenation and the cache key are computed, not assumed.  *)
(* The clock is a controllable clock: a timer fires when the clock has     *)
(* reached its due time and the clock does not pass a pending timer.       *)
(***************************************************************************)
EXTENDS Integers, Sequences, FiniteSets, TLC

VARIABLES config, urls, cache, now, ticks, timers, calls, budget, errorLog, fetchCount

\* the rate limiter: its two arguments, its map from key to the times of the
\* calls it let through, and the calls made on it with the answers given
VARIABLES limiter, requests, limiterLog

\* the performance monitor: this.metrics, and every metric ever recorded
VARIABLES metrics, recorded

limiterVars == <<limiter, requests, limiterLog>>

monitorVars == <<metrics, recorded>>

clientVars == <<config, urls, cache, timers, calls, budget, errorLog, fetchCount>>

vars == <<config, urls, cache, now, ticks, timers, calls, budget, errorLog, fetchCount,
          limiter, requests, limiterLog, metrics, recorded>>

----------------------------------------------------------------------------
(* Bounds of the model *)

\* calls made on one client
MaxCalls == 2

\* calls of one client that may be in flight together
MaxSlots == 1

\* calls in flight together in the specification of overlapping calls
MaxPair == 2

\* advances of the clock in the specification of overlapping calls
MaxPairTicks == 2

\* calls made on one rate limiter
MaxLimiterCalls == 4

\* advances of the clock while the rate limiter is used
MaxLimiterTicks == 3

\* metrics recorded on top of those the monitor starts with
MaxRecords == 3

\* advances of the clock while metrics are recorded
MaxMonitorTicks == 1

\* largest config.retries of the single-call specification
MaxRetries == 3

\* advances of the clock
MaxTicks == 4

----------------------------------------------------------------------------
(* Program constants *)

\* request(..., cacheTTL: number = 5 * 60 * 1000)
DefaultCacheTTL == 5 * 60 * 1000

\* Steps by which the controllable clock is advanced
TickSteps == {1, DefaultCacheTTL - 1}

\* cacheTTL arguments of direct request() calls
CacheTTLs == {2}

\* config.timeout and config.retryDelay values a client may be constructed with
Timeouts == {2}

RetryDelays == {1, 3}

----------------------------------------------------------------------------
(* Strings *)

HttpPrefix == <<"h", "t", "t", "p">>

StartsWith(s, p) == Len(s) >= Len(p) /\ SubSeq(s, 1, Len(p)) = p

\* config.baseURL values a client may be constructed with
BaseURLs == { <<"h", "t", "t", "p", ":">> }

\* url arguments: two relative paths and the absolute form of the first
Urls == { <<"/", "a">>, <<"/", "b">>, <<"h", "t", "t", "p", ":", "/", "a">> }

\* the url of the calls that overlap in time
PairUrl == <<"/", "a">>

\* a falsy payload (undefined) is the empty sequence
NoData == <<>>

Payloads == { NoData, <<"d">> }

\* JSON.stringify of a string value: the value in double quotes
JsonStringify(s) == <<"\"">> \o s \o <<"\"">>

Methods == {"GET", "POST", "PUT", "DELETE"}

MethodStr(m) ==
    CASE m = "GET" -> <<"G", "E", "T">>
      [] m = "POST" -> <<"P", "O", "S", "T">>
      [] m = "PUT" -> <<"P", "U", "T">>
      [] m = "DELETE" -> <<"D", "E", "L", "E", "T", "E">>

\* const fullUrl = url.startsWith('http') ? url : `${this.config.baseURL}${url}`
FullUrl(url) == IF StartsWith(url, HttpPrefix) THEN url ELSE config.baseURL \o url

\* getCacheKey: `${method}:${url}:${body}` with body = options.body ? JSON.stringify(options.body) : ''
GetCacheKey(url, method, body) ==
    MethodStr(method) \o <<":">> \o url \o <<":">>
        \o (IF body # NoData THEN JsonStringify(body) ELSE <<>>)

\* post/put: body: data ? JSON.stringify(data) : undefined
BodyOf(data) == IF data # NoData THEN JsonStringify(data) ELSE NoData

----------------------------------------------------------------------------
(* Values *)

NoEntry == [data |-> -1, timestamp |-> -1, ttl |-> -1]

NoError == [name |-> "", message |-> "", at |-> -1]

NoResult == [data |-> -1, status |-> 0, statusText |-> ""]

CallIds == DOMAIN calls

\* a slot is free before its first call and after its call has settled
FreePc == {"idle", "done", "failed"}

IdleCall ==
    [pc |-> "idle", id |-> 0, method |-> "GET", url |-> <<>>, key |-> <<>>,
     useCache |-> FALSE, cacheTTL |-> 0, attempt |-> 0,
     lastError |-> NoError, result |-> NoResult, thrown |-> NoError,
     req |-> 0, fetches |-> 0, outcomes |-> <<>>, delays |-> <<>>,
     preData |-> -1, preLive |-> FALSE]

\* 2^n, as Math.pow(2, n) for the small non-negative integers n of the loop
RECURSIVE Pow2(_)
Pow2(n) == IF n <= 0 THEN 1 ELSE 2 * Pow2(n - 1)

----------------------------------------------------------------------------
(* Response cache *)

CacheGet(key) == IF key \in DOMAIN cache THEN cache[key] ELSE NoEntry

\* CacheEntry invariant of the data model: live iff now - storedAt < ttl
EntryLive(e) == e # NoEntry /\ now - e.timestamp < e.ttl

\* isCacheValid comparing the clock, not the entry's age, with the ttl
IsCacheValidNoStamp(key) ==
    /\ key \in DOMAIN cache
    /\ now < cache[key].ttl

\* isCacheValid with <= for <
IsCacheValidLe(key) ==
    /\ key \in DOMAIN cache
    /\ (now - cache[key].timestamp) <= cache[key].ttl

\* isCacheValid: entry present and (now - cached.timestamp) < cached.ttl
IsCacheValid(key) ==
    /\ key \in DOMAIN cache
    /\ (now - cache[key].timestamp) < cache[key].ttl

\* a store that updates the data of an entry in place and keeps its stamp
SetCacheKeepStamp(key, data, ttl) ==
    [k \in (DOMAIN cache) \cup {key} |->
        IF k = key
        THEN (IF key \in DOMAIN cache
              THEN [cache[key] EXCEPT !.data = data]
              ELSE [data |-> data, timestamp |-> now, ttl |-> ttl])
        ELSE cache[k]]

\* setCache: this.cache.set(key, {data, timestamp: Date.now(), ttl})
SetCache(key, data, ttl) ==
    [k \in (DOMAIN cache) \cup {key} |->
        IF k = key THEN [data |-> data, timestamp |-> now, ttl |-> ttl]
        ELSE cache[k]]

\* a lookup that evicts the entry it finds expired
CacheEvictOnLookup(key) ==
    IF key \in DOMAIN cache /\ ~((now - cache[key].timestamp) < cache[key].ttl)
    THEN [k \in (DOMAIN cache) \ {key} |-> cache[k]]
    ELSE cache

\* the cache after isCacheValid(key) and cache.get(key): both only read it
CacheAfterLookup(key) == cache

\* sweeping with > for >=
ClearExpiredCacheGt ==
    [k \in {j \in DOMAIN cache : ~((now - cache[j].timestamp) > cache[j].ttl)} |->
        cache[k]]

\* clearExpiredCache: delete every entry with (now - value.timestamp) >= value.ttl
ClearExpiredCache ==
    [k \in {j \in DOMAIN cache : ~((now - cache[j].timestamp) >= cache[j].ttl)} |->
        cache[k]]

\* if (useCache && options.method === 'GET' && this.isCacheValid(cacheKey))
CheckCache(useCache, method, key) ==
    useCache /\ method = "GET" /\ IsCacheValid(key)

\* every decoded response is stored
StoreAlways(useCache, method) == TRUE

\* every decoded response to a GET is stored, whatever useCache says
StoreGetAlways(useCache, method) == method = "GET"

\* if (useCache && options.method === 'GET') this.setCache(...)
StoreInCache(useCache, method) == useCache /\ method = "GET"

----------------------------------------------------------------------------
(* Timers *)

\* a pending setTimeout of attempt a of the call with serial number id
Timer(kind, id, a, due) == [kind |-> kind, id |-> id, attempt |-> a, due |-> due]

\* clearTimeout(timeoutId) of the deadline timer of attempt a of call id
ClearTimeout(ts, id, a) ==
    {t \in ts : ~(t.kind = "deadline" /\ t.id = id /\ t.attempt = a)}

\* `clearTimeout(timeoutId)` follows `await fetch`: it runs when fetch
\* resolved with a response
ClearOnResponse(ts, id, a) == ClearTimeout(ts, id, a)

\* ... and is skipped when fetch rejected (control goes to the catch block)
ClearOnReject(ts, id, a) == ts

\* one controller per call: the timer of any attempt aborts the pending fetch
AbortTargetAnyAttempt(r, t) == r.id = t.id

\* controller.abort() of timer t reaches the pending fetch of call record r
\* only when that fetch belongs to the same attempt (one controller per try)
AbortTarget(r, t) == r.id = t.id /\ r.attempt = t.attempt

----------------------------------------------------------------------------
(* Observability collaborator *)

\* the abort recognised by the wrong error name
ErrorCodeTimeoutName(err) ==
    IF err.name = "TimeoutError" THEN "API_TIMEOUT" ELSE "API_ERROR"

\* error.name === 'AbortError' ? 'API_TIMEOUT' : 'API_ERROR'
ErrorCode(err) == IF err.name = "AbortError" THEN "API_TIMEOUT" ELSE "API_ERROR"

LogEntry(c, url, a, err) ==
    [code |-> IF err.name = "AbortError" THEN "API_TIMEOUT" ELSE "API_ERROR",
     url |-> url, attempt |-> a,
     error |-> (IF err.name = "AbortError" THEN "" ELSE err.message),
     call |-> c]

\* only the failure that ends the call is reported
LogErrorFinalOnly(log, c, url, a, err) ==
    IF a < config.retries THEN log ELSE Append(log, LogEntry(c, url, a, err))

\* only a failure that is retried is reported
LogErrorRetriedOnly(log, c, url, a, err) ==
    IF a < config.retries THEN Append(log, LogEntry(c, url, a, err)) ELSE log

\* a body that fails to decode is not reported
LogErrorSkipDecode(log, c, url, a, err) ==
    IF err.name = "SyntaxError" THEN log ELSE Append(log, LogEntry(c, url, a, err))

\* ErrorHandler.logError: this.errorLog.push({code, message, details, timestamp}).
\* The message is the target url, details are {attempt} or {attempt, error};
\* the timestamp, which nothing reads, is left out; call is the serial
\* number of the reporting call.
LogError(log, c, url, a, err) ==
    Append(log, [code |-> ErrorCode(err), url |-> url, attempt |-> a,
                 error |-> (IF err.name = "AbortError" THEN "" ELSE err.message),
                 call |-> c])

----------------------------------------------------------------------------
(* The retry loop of request() *)

\* the loop bound with < for <=
LoopContinuesLt(attempt) == attempt < config.retries

\* for (...; attempt <= this.config.retries; ...)
LoopContinues(attempt) == attempt <= config.retries

\* no wait between attempts
ShouldDelayNever(attempt) == FALSE

\* if (attempt < this.config.retries) await this.delay(...)
ShouldDelay(attempt) == attempt < config.retries

\* linear instead of exponential backoff
BackoffLinear(attempt) == config.retryDelay * (attempt + 1)

\* this.config.retryDelay * Math.pow(2, attempt)
BackoffDelay(attempt) == config.retryDelay * Pow2(attempt)

\* the generic error thrown whatever the last error was
ThrownGeneric(lastError) ==
    [name |-> "Error", message |-> "Request failed after all retries", at |-> -1]

\* throw lastError || new Error('Request failed after all retries')
Thrown(lastError) ==
    IF lastError = NoError
    THEN [name |-> "Error", message |-> "Request failed after all retries", at |-> -1]
    ELSE lastError

\* The head of the loop for call record r (r.attempt already set), entered
\* with the timer set ts: either the try block runs up to `await fetch`
\* (new AbortController, setTimeout, fetch) or the loop is left and the
\* last error is thrown.
EnterLoop(c, r, ts) ==
    IF LoopContinues(r.attempt)
    THEN /\ calls' = [calls EXCEPT ![c] =
                [r EXCEPT !.pc = "fetch", !.req = fetchCount + 1,
                          !.fetches = @ + 1]]
         /\ timers' = ts \cup {Timer("deadline", r.id, r.attempt, now + config.timeout)}
         /\ fetchCount' = fetchCount + 1
    ELSE /\ calls' = [calls EXCEPT ![c] =
                [r EXCEPT !.pc = "failed", !.thrown = Thrown(r.lastError)]]
         /\ timers' = ts
         /\ fetchCount' = fetchCount

\* a catch block that retries GET calls only: a failure of another verb
\* leaves the loop at once
CatchGetOnly(c, err, ts, kind) ==
    LET r == calls[c]
        r1 == [r EXCEPT !.lastError = err, !.outcomes = Append(@, kind)]
    IN /\ errorLog' = LogError(errorLog, r.id, r.url, r.attempt, err)
       /\ cache' = cache
       /\ IF ShouldDelay(r.attempt) /\ r.method = "GET"
          THEN /\ calls' = [calls EXCEPT ![c] =
                      [r1 EXCEPT !.pc = "delay",
                                 !.delays = Append(@, BackoffDelay(r.attempt))]]
               /\ timers' = ts \cup
                      {Timer("delay", r.id, r.attempt, now + BackoffDelay(r.attempt))}
               /\ fetchCount' = fetchCount
          ELSE EnterLoop(c, [r1 EXCEPT !.attempt =
                                 IF r.method = "GET" THEN @ + 1
                                 ELSE config.retries + 1], ts)

\* The catch block for error err of the current attempt of call c, entered
\* with the timer set ts: record lastError, report, then either start the
\* backoff wait or fall through to the loop increment and the loop head.
Catch(c, err, ts, kind) ==
    LET r == calls[c]
        r1 == [r EXCEPT !.lastError = err, !.outcomes = Append(@, kind)]
    IN /\ errorLog' = LogError(errorLog, r.id, r.url, r.attempt, err)
       /\ cache' = cache
       /\ IF ShouldDelay(r.attempt)
          THEN /\ calls' = [calls EXCEPT ![c] =
                      [r1 EXCEPT !.pc = "delay",
                                 !.delays = Append(@, BackoffDelay(r.attempt))]]
               /\ timers' = ts \cup
                      {Timer("delay", r.id, r.attempt, now + BackoffDelay(r.attempt))}
               /\ fetchCount' = fetchCount
          ELSE EnterLoop(c, [r1 EXCEPT !.attempt = @ + 1], ts)

----------------------------------------------------------------------------
(* Operations *)

\* request(url, options, useCache, cacheTTL) up to its first suspension
Request(c, url, method, body, useCache, cacheTTL) ==
    LET fullUrl == FullUrl(url)
        cacheKey == GetCacheKey(fullUrl, method, body)
        r == [IdleCall EXCEPT !.id = budget, !.method = method, !.url = fullUrl,
                  !.key = cacheKey, !.useCache = useCache,
                  !.cacheTTL = cacheTTL,
                  !.preData = CacheGet(cacheKey).data,
                  !.preLive = EntryLive(CacheGet(cacheKey))]
    IN /\ budget > 0
       /\ budget' = budget - 1
       /\ calls[c].pc \in FreePc
       /\ \A d \in CallIds : d < c => calls[d].pc \notin FreePc
       /\ IF CheckCache(useCache, method, cacheKey)
          THEN /\ calls' = [calls EXCEPT ![c] =
                      [r EXCEPT !.pc = "done",
                          !.result = [data |-> cache[cacheKey].data,
                                      status |-> 200,
                                      statusText |-> "OK (Cached)"]]]
               /\ UNCHANGED <<timers, fetchCount>>
          ELSE EnterLoop(c, r, timers)
       /\ cache' = CacheAfterLookup(cacheKey)
       /\ UNCHANGED <<limiterVars, monitorVars, config, urls, now, ticks, errorLog>>

\* get(url, useCache = true)
Get(c) ==
    \E url \in urls, useCache \in BOOLEAN :
        Request(c, url, "GET", NoData, useCache, DefaultCacheTTL)

\* post(url, data)
Post(c) ==
    \E url \in urls, data \in Payloads :
        Request(c, url, "POST", BodyOf(data), FALSE, DefaultCacheTTL)

\* put(url, data)
Put(c) ==
    \E url \in urls, data \in Payloads :
        Request(c, url, "PUT", BodyOf(data), FALSE, DefaultCacheTTL)

\* delete(url)
Delete(c) ==
    \E url \in urls :
        Request(c, url, "DELETE", NoData, FALSE, DefaultCacheTTL)

\* request(url, {method: 'GET'}, true, cacheTTL) called directly with a short TTL
RequestDirect(c) ==
    \E url \in urls, ttl \in CacheTTLs :
        Request(c, url, "GET", NoData, TRUE, ttl)

AttemptError(name, message, a) == [name |-> name, message |-> message, at |-> a]

\* `await fetch` resolves with a response: clearTimeout, then either
\* `throw new Error(HTTP ...)` for !response.ok or `await response.json()`
FetchResponds(c) ==
    \E ok \in BOOLEAN :
        LET r == calls[c]
            ts == ClearOnResponse(timers, r.id, r.attempt)
        IN /\ r.pc = "fetch"
           /\ IF ok
              THEN /\ calls' = [calls EXCEPT ![c].pc = "json"]
                   /\ timers' = ts
                   /\ UNCHANGED <<cache, errorLog, fetchCount>>
              ELSE Catch(c, AttemptError("Error", "HTTP 500", r.attempt), ts, "http")
           /\ UNCHANGED <<limiterVars, monitorVars, config, urls, now, ticks, budget>>

\* `await fetch` rejects because the transport failed (TypeError)
FetchRejects(c) ==
    LET r == calls[c]
    IN /\ r.pc = "fetch"
       /\ Catch(c, AttemptError("TypeError", "Failed to fetch", r.attempt),
                ClearOnReject(timers, r.id, r.attempt), "network")
       /\ UNCHANGED <<limiterVars, monitorVars, config, urls, now, ticks, budget>>

\* the deadline timer of an attempt fires: controller.abort(); when that
\* attempt's fetch is still pending it rejects with an AbortError
DeadlineFires ==
    \E t \in timers :
        /\ t.kind = "deadline" /\ t.due <= now
        /\ IF \E c \in CallIds : calls[c].pc = "fetch" /\ AbortTarget(calls[c], t)
           THEN LET c == CHOOSE d \in CallIds :
                        calls[d].pc = "fetch" /\ AbortTarget(calls[d], t)
                IN Catch(c, AttemptError("AbortError", "The operation was aborted",
                                         calls[c].attempt),
                         timers \ {t}, "timeout")
           ELSE /\ timers' = timers \ {t}
                /\ UNCHANGED <<calls, cache, errorLog, fetchCount>>
        /\ UNCHANGED <<limiterVars, monitorVars, config, urls, now, ticks, budget>>

\* the decoded body of the response to the pending request of call record r:
\* the transport answers its n-th request with the value n
ResponseData(r) == r.req

\* `await response.json()` resolves: store in the cache when cacheable, return
JsonResolves(c) ==
    LET r == calls[c]
        data == ResponseData(r)
    IN /\ r.pc = "json"
       /\ cache' = IF StoreInCache(r.useCache, r.method)
                   THEN SetCache(r.key, data, r.cacheTTL)
                   ELSE cache
       /\ calls' = [calls EXCEPT ![c] =
              [r EXCEPT !.pc = "done", !.outcomes = Append(@, "success"),
                        !.result = [data |-> data, status |-> 200, statusText |-> "OK"]]]
       /\ UNCHANGED <<limiterVars, monitorVars, config, urls, now, ticks, timers, budget, errorLog, fetchCount>>

\* `await response.json()` rejects (the body does not decode)
JsonRejects(c) ==
    LET r == calls[c]
    IN /\ r.pc = "json"
       /\ Catch(c, AttemptError("SyntaxError", "Unexpected token", r.attempt),
                timers, "decode")
       /\ UNCHANGED <<limiterVars, monitorVars, config, urls, now, ticks, budget>>

\* the backoff timer of delay() fires: attempt++ and the loop head
DelayFires(c) ==
    \E t \in timers :
        /\ t.kind = "delay" /\ t.id = calls[c].id /\ t.due <= now
        /\ calls[c].pc = "delay"
        /\ EnterLoop(c, [calls[c] EXCEPT !.attempt = @ + 1], timers \ {t})
        /\ UNCHANGED <<limiterVars, monitorVars, config, urls, cache, now, ticks, budget, errorLog>>

\* startCacheCleanup: the interval timer runs clearExpiredCache()
Sweep ==
    /\ cache' = ClearExpiredCache
    /\ UNCHANGED <<limiterVars, monitorVars, config, urls, now, ticks, timers, calls, budget, errorLog, fetchCount>>

\* the clock advances, never past a pending timer
Tick ==
    \E d \in TickSteps :
        /\ ticks > 0
        /\ \A t \in timers : t.due >= now + d
        /\ now' = now + d
        /\ ticks' = ticks - 1
        /\ UNCHANGED <<limiterVars, monitorVars, config, urls, cache, timers, calls, budget, errorLog, fetchCount>>

----------------------------------------------------------------------------
(* Rate limiter: SecurityUtils.createRateLimiter(maxRequests, timeWindow) *)

\* key arguments of the limiter
LimiterKeys == {"u1", "u2"}

\* (maxRequests, timeWindow) arguments a limiter may be created with
LimiterArgs == [maxRequests : {1, 2}, timeWindow : {2}]

\* export const apiRateLimiter = SecurityUtils.createRateLimiter(100, 60000)
ApiRateLimiterArgs == [maxRequests |-> 100, timeWindow |-> 60000]

\* requests.get(key) || []
UserRequests(key) == IF key \in DOMAIN requests THEN requests[key] ELSE <<>>

\* userRequests.filter(time => now - time < timeWindow)
ValidRequests(key) ==
    SelectSeq(UserRequests(key), LAMBDA time : now - time < limiter.timeWindow)

\* the limit tested with > for >=
LimitExceededGt(validRequests) == Len(validRequests) > limiter.maxRequests

\* if (validRequests.length >= maxRequests) return false
LimitExceeded(validRequests) == Len(validRequests) >= limiter.maxRequests

\* requests.set(key, validRequests)
RequestsSet(key, validRequests) ==
    [k \in (DOMAIN requests) \cup {key} |->
        IF k = key THEN validRequests ELSE requests[k]]

\* one call of the function createRateLimiter returns, with its answer logged
RateLimit(key) ==
    LET validRequests == ValidRequests(key)
    IN /\ Len(limiterLog) < MaxLimiterCalls
       /\ IF LimitExceeded(validRequests)
          THEN /\ requests' = requests
               /\ limiterLog' = Append(limiterLog,
                      [key |-> key, time |-> now, allowed |-> FALSE])
          ELSE /\ requests' = RequestsSet(key, Append(validRequests, now))
               /\ limiterLog' = Append(limiterLog,
                      [key |-> key, time |-> now, allowed |-> TRUE])
       /\ UNCHANGED <<limiter, monitorVars, clientVars, now, ticks>>

----------------------------------------------------------------------------
(* Performance monitor: PerformanceMonitor.recordMetric *)

\* `if (this.metrics.length > 1000)` and `slice(-1000)`
MetricsCap == 1000

\* name, value and unit arguments of recordMetric
MetricNames == {"LCP", "API_RESPONSE_TIME"}

MetricValues == {0, 7}

MetricUnits == {"ms"}

\* numbers of metrics a monitor has recorded when it is first looked at:
\* none, one less than the cap, the cap
MonitorStarts == {0, MetricsCap - 1, MetricsCap}

\* {name, value, unit, timestamp: Date.now()}
Metric(name, value, unit) ==
    [name |-> name, value |-> value, unit |-> unit, timestamp |-> now]

\* the first n elements kept instead of the last n
SliceFirst(s, n) == IF Len(s) <= n THEN s ELSE SubSeq(s, 1, n)

\* Array.prototype.slice(-n): the last n elements, all of them when fewer
SliceLast(s, n) == IF Len(s) <= n THEN s ELSE SubSeq(s, Len(s) - n + 1, Len(s))

\* this.metrics.push(metric); if (this.metrics.length > 1000) this.metrics = this.metrics.slice(-1000)
RecordMetric ==
    \E name \in MetricNames, value \in MetricValues, unit \in MetricUnits :
        LET metric == Metric(name, value, unit)
            pushed == Append(metrics, metric)
        IN /\ \E k \in MonitorStarts :
                  Len(recorded) \in k..(k + MaxRecords - 1)
           /\ metrics' = IF Len(pushed) > MetricsCap
                         THEN SliceLast(pushed, MetricsCap)
                         ELSE pushed
           /\ recorded' = Append(recorded, metric)
           /\ UNCHANGED <<limiterVars, clientVars, now, ticks>>

\* getMetrics: [...this.metrics]
GetMetrics == metrics

\* the monitor after k calls recordMetric('LCP', i, 'ms'), i = 1..k, at time 0
MetricsAfter(k) ==
    [i \in 1..k |-> [name |-> "LCP", value |-> i, unit |-> "ms", timestamp |-> 0]]

----------------------------------------------------------------------------

\* createRateLimiter(maxRequests, timeWindow): const requests = new Map()
InitLimiter(args) ==
    /\ limiter \in args
    /\ requests = <<>>
    /\ limiterLog = <<>>

\* a monitor that has recorded k metrics, k drawn from counts
InitMonitor(counts) ==
    \E k \in counts :
        /\ metrics = SliceLast(MetricsAfter(k), MetricsCap)
        /\ recorded = MetricsAfter(k)

\* new ApiClient(config): {timeout: 30000, retries: 3, retryDelay: 1000, ...config},
\* used for nCalls calls on the urls urlArgs, nSlots of them in flight together,
\* while the clock advances nTicks times
InitClient(configs, urlArgs, nSlots, nCalls, nTicks) ==
    /\ config \in configs
    /\ urls = urlArgs
    /\ cache = <<>>
    /\ now = 0
    /\ ticks = nTicks
    /\ timers = {}
    /\ calls = [c \in 1..nSlots |-> IdleCall]
    /\ budget = nCalls
    /\ errorLog = <<>>
    /\ fetchCount = 0

\* the client in use beside the exported limiter and a fresh monitor
InitWith(configs, urlArgs, nSlots, nCalls, nTicks) ==
    /\ InitClient(configs, urlArgs, nSlots, nCalls, nTicks)
    /\ InitLimiter({ApiRateLimiterArgs})
    /\ InitMonitor({0})

\* a client that makes no call
InitClientIdle(nTicks) ==
    InitClient([baseURL : BaseURLs, timeout : Timeouts,
                retries : {1}, retryDelay : {1}], {}, MaxSlots, 0, nTicks)

\* one limiter of each argument pair, beside an idle client and a fresh monitor
InitRateLimit ==
    /\ InitClientIdle(MaxLimiterTicks)
    /\ InitLimiter(LimiterArgs)
    /\ InitMonitor({0})

\* a monitor that is empty or about to reach its cap, beside an idle client
InitRecord ==
    /\ InitClientIdle(MaxMonitorTicks)
    /\ InitLimiter({ApiRateLimiterArgs})
    /\ InitMonitor(MonitorStarts)

\* one client with one retry, used for several calls
Init ==
    InitWith([baseURL : BaseURLs, timeout : Timeouts,
              retries : {1}, retryDelay : {1}], Urls, MaxSlots, MaxCalls, MaxTicks)

\* clients of every retry count and base delay, used for one call
InitRetry ==
    InitWith([baseURL : BaseURLs, timeout : Timeouts,
              retries : 0..MaxRetries, retryDelay : RetryDelays], Urls, 1, 1, MaxTicks)

\* one client with one retry, used for calls on one url that overlap in time
InitPair ==
    InitWith([baseURL : BaseURLs, timeout : Timeouts,
              retries : {1}, retryDelay : {1}], {PairUrl}, MaxPair, MaxPair, MaxPairTicks)

Next ==
    \/ \E c \in CallIds : Get(c)
    \/ \E c \in CallIds : Post(c)
    \/ \E c \in CallIds : Put(c)
    \/ \E c \in CallIds : Delete(c)
    \/ \E c \in CallIds : RequestDirect(c)
    \/ \E c \in CallIds : FetchResponds(c)
    \/ \E c \in CallIds : FetchRejects(c)
    \/ DeadlineFires
    \/ \E c \in CallIds : JsonResolves(c)
    \/ \E c \in CallIds : JsonRejects(c)
    \/ \E c \in CallIds : DelayFires(c)
    \/ Sweep
    \/ Tick

Spec == Init /\ [][Next]_vars

SpecRetry == InitRetry /\ [][Next]_vars

SpecPair == InitPair /\ [][Next]_vars

\* calls of the limiter while time passes
NextRateLimit ==
    \/ \E key \in LimiterKeys : RateLimit(key)
    \/ Tick

SpecRateLimit == InitRateLimit /\ [][NextRateLimit]_vars

\* calls of recordMetric while time passes
NextRecord ==
    \/ RecordMetric
    \/ Tick

SpecRecord == InitRecord /\ [][NextRecord]_vars

\* one call on one client; time passes and due timers fire. Nothing in
\* request() bounds the wait of `await fetch` once its deadline timer is
\* cleared or the wait of `await response.json()`, so no fairness is stated
\* for the transport's answers.
InitLive ==
    InitWith([baseURL : BaseURLs, timeout : Timeouts,
              retries : {1}, retryDelay : {1}], {PairUrl}, MaxSlots, 1, MaxTicks)

SpecLive ==
    /\ InitLive /\ [][Next]_vars
    /\ WF_vars(Tick)
    /\ WF_vars(DeadlineFires)
    /\ \A c \in 1..MaxSlots : WF_vars(DelayFires(c))

----------------------------------------------------------------------------
(* Properties *)

N == config.retries

Started(r) == r.pc # "idle"

\* a cacheable GET: get with useCache = true
CacheableGet(r) == r.useCache /\ r.method = "GET"

\* an entry was stored under the call's key when the call began
HadEntry(r) == r.preData # NoEntry.data

\* the reports the call with serial number id sent to the collaborator
Reports(id) == SelectSeq(errorLog, LAMBDA e : e.call = id)

\* the failed attempts of a call
Failures(r) == Cardinality({i \in 1..Len(r.outcomes) : r.outcomes[i] # "success"})

Min(a, b) == IF a <= b THEN a ELSE b

\* the error name each kind of failure carries
KindName(kind) ==
    CASE kind = "timeout" -> "AbortError"
      [] kind = "network" -> "TypeError"
      [] kind = "http" -> "Error"
      [] kind = "decode" -> "SyntaxError"
      [] OTHER -> ""

\* C1: a cacheable GET whose key holds an entry stored within its TTL
\* completes without invoking the transport and returns the stored value.
C1_CacheHitAvoidsNetwork ==
    \A c \in CallIds :
        LET r == calls[c]
        IN (Started(r) /\ CacheableGet(r) /\ r.preLive) =>
              /\ r.pc = "done"
              /\ r.fetches = 0
              /\ r.req = 0
              /\ r.result.data = r.preData

C1_Witness ==
    \E c \in CallIds :
        LET r == calls[c]
        IN /\ r.pc = "done" /\ CacheableGet(r) /\ r.preLive
           /\ r.result.statusText = "OK (Cached)"
           /\ r.result.data >= 1
           /\ fetchCount >= 1

\* C2: an entry is live iff now - storedAt < ttl, and a cacheable GET begun
\* at storedAt + ttl or later goes to the transport instead of returning
\* the stored value.
C2_CacheExpiry ==
    /\ \A k \in DOMAIN cache :
          IsCacheValid(k) <=> (now < cache[k].timestamp + cache[k].ttl)
    /\ \A c \in CallIds :
          LET r == calls[c]
          IN (Started(r) /\ CacheableGet(r) /\ HadEntry(r) /\ ~r.preLive) =>
                /\ r.fetches >= 1
                /\ r.result.statusText # "OK (Cached)"
                /\ r.pc = "done" => r.result.data = r.req

C2_Witness ==
    \E c \in CallIds :
        LET r == calls[c]
        IN /\ r.pc = "done" /\ CacheableGet(r) /\ HadEntry(r) /\ ~r.preLive
           /\ r.fetches >= 1
           /\ r.result.data # r.preData

\* C3: a call never makes more than N + 1 transport attempts, makes them with
\* the indices 0..N in order, and fails exactly when N + 1 attempts failed.
C3_RetryExhaustionCount ==
    \A c \in CallIds :
        LET r == calls[c]
        IN /\ r.fetches <= N + 1
           /\ r.pc \in {"fetch", "json", "delay"} => r.attempt = r.fetches - 1
           /\ r.pc = "failed" => r.fetches = N + 1 /\ Failures(r) = N + 1
           /\ Failures(r) = N + 1 => r.pc = "failed"

C3_Witness ==
    \E c \in CallIds :
        /\ calls[c].pc = "failed" /\ N = 2
        /\ calls[c].fetches = 3 /\ Failures(calls[c]) = 3

\* C4: the i-th wait of a call is retryDelay * 2^i (i from 0), a wait follows
\* every failed attempt but the one with index N, and none follows that one.
C4_BackoffGrowth ==
    \A c \in CallIds :
        LET r == calls[c]
        IN /\ \A i \in 1..Len(r.delays) :
                 r.delays[i] = config.retryDelay * 2^(i - 1)
           /\ Len(r.delays) = Min(Failures(r), N)
           /\ r.pc = "delay" =>
                 \E t \in timers :
                     /\ t.kind = "delay" /\ t.id = r.id
                     /\ t.due >= now
                     /\ t.due - now <= r.delays[Len(r.delays)]
           /\ r.pc = "failed" =>
                 ~ \E t \in timers : t.kind = "delay" /\ t.id = r.id

C4_Witness ==
    \E c \in CallIds :
        /\ calls[c].pc = "delay" /\ N = 3
        /\ calls[c].delays = <<1, 2, 4>>

\* C5: with maxRetries >= 2, a call whose attempts 0 and 1 failed and whose
\* attempt 2 succeeded returns the value of attempt 2 after exactly 2
\* reports and 3 transport attempts.
C5_SuccessAfterTransientFailure ==
    \A c \in CallIds :
        LET r == calls[c]
            o == r.outcomes
        IN /\ (N >= 2 /\ Failures(r) <= 2) => r.pc # "failed"
           /\ (Len(o) = 3 /\ o[1] # "success" /\ o[2] # "success" /\ o[3] = "success") =>
                 /\ N >= 2
                 /\ r.pc = "done"
                 /\ r.result.data = r.req
                 /\ r.result.statusText = "OK"
                 /\ r.fetches = 3
                 /\ r.req = fetchCount
                 /\ Len(Reports(r.id)) = 2
                 /\ ~ \E t \in timers : t.kind = "delay" /\ t.id = r.id

C5_Witness ==
    \E c \in CallIds :
        /\ calls[c].pc = "done"
        /\ Len(calls[c].outcomes) = 3
        /\ calls[c].outcomes[3] = "success"
        /\ Len(Reports(calls[c].id)) = 2

\* C6: every cache entry is keyed by a GET, and no step of a POST, PUT or
\* DELETE call changes the cache.
NonGetStep ==
    \E c \in CallIds : calls'[c] # calls[c] /\ calls'[c].method # "GET"

C6_NonCacheableNeverPollute ==
    /\ [](\A k \in DOMAIN cache : StartsWith(k, <<"G", "E", "T", ":">>))
    /\ [][NonGetStep => cache' = cache]_vars

C6_Witness ==
    \E c \in CallIds :
        /\ calls[c].pc = "done" /\ calls[c].method = "POST"
        /\ GetCacheKey(calls[c].url, "GET", NoData) \in DOMAIN cache

\* C7: an attempt is reported as API_TIMEOUT exactly when its deadline timer
\* cut its pending fetch off; every other failure is reported as API_ERROR;
\* a pending fetch always has its deadline timer armed.
C7_TimeoutClassification ==
    \A c \in CallIds :
        LET r == calls[c]
            reps == Reports(r.id)
        IN /\ \A i \in 1..Len(reps) :
                 /\ reps[i].attempt + 1 \in 1..Len(r.outcomes)
                 /\ reps[i].code = "API_TIMEOUT" <=>
                        r.outcomes[reps[i].attempt + 1] = "timeout"
                 /\ reps[i].code = "API_ERROR" <=>
                        r.outcomes[reps[i].attempt + 1] \in {"network", "http", "decode"}
           /\ \A i \in 1..Len(r.outcomes) :
                 r.outcomes[i] = "timeout" =>
                     \E j \in 1..Len(reps) :
                         reps[j].attempt = i - 1 /\ reps[j].code = "API_TIMEOUT"
           /\ r.pc = "fetch" =>
                 \E t \in timers :
                     t.kind = "deadline" /\ t.id = r.id /\ t.attempt = r.attempt

C7_Witness ==
    \E c \in CallIds :
        LET reps == Reports(calls[c].id)
        IN /\ Len(reps) >= 2
           /\ \E i, j \in 1..Len(reps) :
                 reps[i].code = "API_TIMEOUT" /\ reps[j].code = "API_ERROR"

\* C8: a call fails only after attempt N failed, with the error of attempt N,
\* and a call that returned a value from the transport ended with a success.
C8_LastErrorSurfaced ==
    \A c \in CallIds :
        LET r == calls[c]
            o == r.outcomes
        IN /\ r.pc = "failed" =>
                 /\ Len(o) = N + 1
                 /\ o[N + 1] # "success"
                 /\ r.thrown.at = N
                 /\ r.thrown.name = KindName(o[N + 1])
                 /\ r.thrown = r.lastError
                 /\ r.result = NoResult
           /\ r.pc # "failed" => r.thrown = NoError
           /\ (r.pc = "done" /\ r.fetches > 0) =>
                 /\ o[Len(o)] = "success"
                 /\ r.result.data = r.req

C8_Witness ==
    \E c \in CallIds :
        LET r == calls[c]
        IN /\ r.pc = "failed" /\ N >= 1
           /\ r.outcomes[1] = "network"
           /\ r.thrown.name = "AbortError"

\* C9: the reports of a call are its failed attempts, one report each, in
\* order of attempt index, and the report of an attempt is made by the time
\* its backoff wait or the failure of the call begins.
C9_EveryFailureReported ==
    \A c \in CallIds :
        LET r == calls[c]
            reps == Reports(r.id)
        IN /\ Len(reps) = Failures(r)
           /\ \A i \in 1..Len(reps) : reps[i].attempt = i - 1
           /\ r.pc = "delay" => Len(reps) = r.attempt + 1
           /\ r.pc = "failed" => Len(reps) = N + 1

C9_Witness ==
    \E c \in CallIds :
        /\ calls[c].pc = "failed" /\ N >= 1
        /\ Len(Reports(calls[c].id)) = N + 1

\* C10: no deadline timer is pending for an attempt that has finished; a
\* pending deadline timer belongs to an attempt whose fetch is pending.
C10_DeadlineTimerCleared ==
    \A t \in timers :
        t.kind = "deadline" =>
            \E c \in CallIds :
                /\ calls[c].id = t.id /\ calls[c].attempt = t.attempt
                /\ calls[c].pc = "fetch"

\* the step adds an entry to the cache or replaces one
CacheWritten ==
    \E k \in DOMAIN cache' : k \notin DOMAIN cache \/ cache'[k] # cache[k]

\* the step ends an attempt of call c in a failure
AttemptFails(c) ==
    /\ Len(calls'[c].outcomes) = Len(calls[c].outcomes) + 1
    /\ calls'[c].outcomes[Len(calls'[c].outcomes)] # "success"

\* the step ends an attempt of call c in a success
AttemptSucceeds(c) ==
    /\ Len(calls'[c].outcomes) = Len(calls[c].outcomes) + 1
    /\ calls'[c].outcomes[Len(calls'[c].outcomes)] = "success"

\* C11: a step writes a cache entry only when it ends an attempt of a
\* cacheable GET in a success, and then it writes that call's key; a step
\* that ends an attempt in a failure writes nothing, and no step of a call
\* with useCache = false writes anything or changes the entry of its key.
C11_StoreStep ==
    /\ CacheWritten =>
           \E c \in CallIds :
               /\ AttemptSucceeds(c) /\ CacheableGet(calls[c])
               /\ calls[c].pc = "json" /\ calls'[c].pc = "done"
               /\ \A k \in DOMAIN cache' :
                      (k \notin DOMAIN cache \/ cache'[k] # cache[k]) => k = calls[c].key
               /\ cache'[calls[c].key].data = calls'[c].result.data
    /\ \A c \in CallIds :
           /\ AttemptFails(c) => cache' = cache
           /\ (calls'[c] # calls[c] /\ ~calls'[c].useCache) =>
                  /\ ~CacheWritten
                  /\ calls'[c].key \in DOMAIN cache =>
                         /\ calls'[c].key \in DOMAIN cache'
                         /\ cache'[calls'[c].key] = cache[calls'[c].key]

C11_CacheWriteOnlyOnCacheableSuccess == [][C11_StoreStep]_vars

C11_Witness ==
    \E c \in CallIds :
        LET r == calls[c]
        IN /\ r.pc = "done" /\ r.method = "GET" /\ ~r.useCache
           /\ r.fetches = 2 /\ r.outcomes[1] # "success"
           /\ r.key \in DOMAIN cache
           /\ cache[r.key].data # r.result.data

\* the call in slot c has started and not settled
InFlight(c) == calls[c].pc \in {"fetch", "json", "delay"}

Settled(c) == calls[c].pc \in {"done", "failed"}

\* the call in slot c waits for a timer that cannot fire any more because
\* the clock of the model has stopped
TimerStalled(c) ==
    /\ ticks = 0
    /\ calls[c].pc \in {"fetch", "delay"}
    /\ \E t \in timers :
           t.id = calls[c].id /\ t.attempt = calls[c].attempt /\ t.due > now

\* C12: a call never has both a returned value and a thrown error, and a
\* call in flight eventually settles (done or failed) provided its timers
\* fire.
C12_CallTerminates ==
    /\ [](\A c \in 1..MaxSlots :
             ~(calls[c].result # NoResult /\ calls[c].thrown # NoError))
    /\ \A c \in 1..MaxSlots : InFlight(c) ~> (Settled(c) \/ TimerStalled(c))

\* the step starts a transport attempt of call c that is not its first
RetryStarts(c) ==
    /\ calls'[c].id = calls[c].id
    /\ calls'[c].fetches = calls[c].fetches + 1
    /\ calls[c].fetches >= 1

\* C13: the attempts a call has started exceed the attempts that ended by at
\* most one, and by one exactly while an attempt is in flight; attempt i+1
\* starts only from the backoff wait of attempt i, when attempt i has ended
\* in a failure that is reported and the wait's timer is due.
C13_InFlight ==
    \A c \in CallIds :
        LET r == calls[c]
        IN /\ r.fetches - Len(r.outcomes) \in {0, 1}
           /\ r.fetches - Len(r.outcomes) = 1 <=> r.pc \in {"fetch", "json"}

C13_RetryStep ==
    \A c \in CallIds :
        RetryStarts(c) =>
            LET r == calls[c]
                reps == Reports(r.id)
            IN /\ r.pc = "delay" /\ calls'[c].pc = "fetch"
               /\ calls'[c].attempt = r.attempt + 1
               /\ Len(r.outcomes) = r.attempt + 1
               /\ r.outcomes[r.attempt + 1] # "success"
               /\ Len(reps) = r.attempt + 1
               /\ reps[r.attempt + 1].attempt = r.attempt
               /\ \E t \in timers :
                      /\ t.kind = "delay" /\ t.id = r.id /\ t.attempt = r.attempt
                      /\ t.due <= now
                      /\ t \notin timers'
               /\ ~ \E t \in timers' : t.kind = "delay" /\ t.id = r.id

C13_AttemptsSequential == []C13_InFlight /\ [][C13_RetryStep]_vars

C13_Witness ==
    \E c \in CallIds :
        LET r == calls[c]
        IN /\ r.pc = "fetch" /\ r.attempt = 2 /\ r.fetches = 3
           /\ Len(r.outcomes) = 2 /\ Len(Reports(r.id)) = 2
           /\ now >= 3 * config.retryDelay

\* the step is a store of call c: a cacheable GET ends an attempt in a success
StoreStep(c) == AttemptSucceeds(c) /\ CacheableGet(calls[c])

\* the step is a lookup of call c that hits
HitStep(c) ==
    /\ calls'[c].id # calls[c].id
    /\ calls'[c].result.statusText = "OK (Cached)"

\* C14: a store puts under its key the whole entry (its data, the time of
\* the store, its ttl) whatever was there and leaves the other keys alone;
\* every other step leaves each entry as it is or removes it; a lookup that
\* hits returns the data of a live entry. So each key holds the whole entry
\* of the last store to it.
C14_WholeEntryStep ==
    /\ \A c \in CallIds :
           /\ StoreStep(c) =>
                  /\ DOMAIN cache' = DOMAIN cache \cup {calls[c].key}
                  /\ cache'[calls[c].key] =
                         [data |-> calls'[c].result.data,
                          timestamp |-> now,
                          ttl |-> calls[c].cacheTTL]
                  /\ calls'[c].result.data = calls[c].req
                  /\ \A k \in DOMAIN cache : k # calls[c].key => cache'[k] = cache[k]
           /\ HitStep(c) =>
                  /\ calls'[c].key \in DOMAIN cache
                  /\ EntryLive(cache[calls'[c].key])
                  /\ calls'[c].result.data = cache[calls'[c].key].data
    /\ (~ \E c \in CallIds : StoreStep(c)) =>
           \A k \in DOMAIN cache' : k \in DOMAIN cache /\ cache'[k] = cache[k]

C14_LastWriterWins == [][C14_WholeEntryStep]_vars

C14_Witness ==
    \E c, d \in CallIds :
        LET r == calls[c]
            q == calls[d]
        IN /\ c # d /\ r.pc = "done" /\ q.pc = "done"
           /\ CacheableGet(r) /\ CacheableGet(q) /\ r.key = q.key
           /\ ~HadEntry(r) /\ ~HadEntry(q)
           /\ r.result.data < q.result.data
           /\ r.cacheTTL # q.cacheTTL
           /\ cache[r.key] = [data |-> r.result.data, timestamp |-> 1,
                              ttl |-> r.cacheTTL]

\* the step ends an attempt of call c in a timeout
TimeoutStep(c) ==
    /\ AttemptFails(c)
    /\ calls'[c].outcomes[Len(calls'[c].outcomes)] = "timeout"

\* the deadline timers the step removes
DeadlinesGone == {t \in timers \ timers' : t.kind = "deadline"}

\* C15: a step that ends an attempt in a timeout fires the due deadline
\* timer of that very attempt of that very call and changes no other call;
\* a deadline timer that fires when its attempt is no longer waiting for
\* fetch changes no call at all.
C15_DeadlineStep ==
    /\ \A c \in CallIds :
           TimeoutStep(c) =>
               /\ calls[c].pc = "fetch"
               /\ \E t \in DeadlinesGone :
                      /\ DeadlinesGone = {t}
                      /\ t.id = calls[c].id /\ t.attempt = calls[c].attempt
                      /\ t.due <= now
               /\ \A d \in CallIds : d # c => calls'[d] = calls[d]
    /\ \A t \in DeadlinesGone :
           (~ \E c \in CallIds :
                /\ calls[c].id = t.id /\ calls[c].attempt = t.attempt
                /\ calls[c].pc = "fetch") =>
               /\ calls' = calls
               /\ errorLog' = errorLog

C15_DeadlineCancelsOwnAttempt == [][C15_DeadlineStep]_vars

C15_Witness ==
    \E c, d \in CallIds :
        LET r == calls[c]
            q == calls[d]
        IN /\ c # d /\ now = 2
           /\ r.pc = "fetch" /\ r.attempt = 1 /\ r.outcomes = <<"network">>
           /\ Timer("deadline", r.id, 1, 3) \in timers
           /\ ~ \E t \in timers : t.kind = "deadline" /\ t.id = r.id /\ t.attempt = 0
           /\ q.pc = "fetch" /\ q.outcomes = <<>>
           /\ \E t \in timers :
                  t.kind = "deadline" /\ t.id = q.id /\ t.attempt = 0 /\ t.due <= 3

\* the step begins a call in slot c: request() runs its lookup and either
\* returns the stored value or issues the first fetch
LookupStep(c) == calls'[c].id # calls[c].id

\* C16: the step that looks a key up, whether it finds a live entry, an
\* expired entry or none, leaves the cache as it was; an expired entry that
\* was looked up is still stored.
C16_LookupStep ==
    \A c \in CallIds :
        LookupStep(c) =>
            /\ cache' = cache
            /\ calls'[c].preLive <=> EntryLive(CacheGet(calls'[c].key))
            /\ (calls'[c].result.statusText = "OK (Cached)") <=>
                   (CacheableGet(calls'[c]) /\ calls'[c].preLive)

C16_LookupIsPureRead == [][C16_LookupStep]_vars

C16_Witness ==
    \E c \in CallIds :
        LET r == calls[c]
        IN /\ r.pc = "fetch" /\ r.fetches = 1 /\ r.outcomes = <<>>
           /\ CacheableGet(r) /\ HadEntry(r) /\ ~r.preLive
           /\ r.key \in DOMAIN cache
           /\ cache[r.key].data = r.preData
           /\ ~EntryLive(cache[r.key])

\* the step removes entries from the cache: a pass of the sweep
SweepStep == \E k \in DOMAIN cache : k \notin DOMAIN cache'

\* C17: a step that removes entries leaves exactly the entries with
\* now - storedAt < ttl, each as it was, and is no step of a call; in
\* particular an entry stored at the present time with a positive ttl
\* survives it.
C17_SweepStepExact ==
    SweepStep =>
        /\ DOMAIN cache' = {k \in DOMAIN cache : now - cache[k].timestamp < cache[k].ttl}
        /\ \A k \in DOMAIN cache' : cache'[k] = cache[k]
        /\ \A k \in DOMAIN cache :
               (cache[k].timestamp = now /\ cache[k].ttl > 0) => k \in DOMAIN cache'
        /\ calls' = calls /\ now' = now

C17_SweepRemovesExactlyExpired == [][C17_SweepStepExact]_vars

C17_Witness ==
    \E c \in CallIds :
        LET r == calls[c]
        IN /\ r.pc = "json" /\ CacheableGet(r)
           /\ HadEntry(r) /\ ~r.preLive
           /\ r.key \notin DOMAIN cache

\* C18: whatever the verb and whatever the kind of failure, an attempt that
\* fails with index below N is followed by its backoff wait and then by the
\* attempt with the next index, and one that fails with index N ends the
\* call; a successful attempt ends the call and no attempt follows it.
C18_RetryStep ==
    \A c \in CallIds :
        LET r == calls[c]
        IN /\ AttemptFails(c) =>
                  /\ r.attempt <= N
                  /\ r.attempt < N => calls'[c].pc = "delay"
                  /\ r.attempt = N => calls'[c].pc = "failed"
           /\ (r.pc = "delay" /\ calls'[c] # r) =>
                  /\ calls'[c].pc = "fetch"
                  /\ calls'[c].attempt = r.attempt + 1
                  /\ calls'[c].fetches = r.fetches + 1
           /\ AttemptSucceeds(c) => calls'[c].pc = "done"
           /\ (r.pc = "done" /\ calls'[c].id = r.id) => calls'[c] = r

C18_RetryIndependentOfKindAndVerb == [][C18_RetryStep]_vars

C18_Witness ==
    \E c \in CallIds :
        LET r == calls[c]
        IN /\ r.method = "DELETE" /\ N = 1
           /\ r.pc = "failed"
           /\ r.outcomes = <<"http", "timeout">>

\* the step ends an attempt of call c because the body did not decode
DecodeFailStep(c) ==
    /\ AttemptFails(c)
    /\ calls'[c].outcomes[Len(calls'[c].outcomes)] = "decode"

\* C20: when the body of a success-status response fails to decode, the
\* attempt ends as a failure: one API_ERROR report carrying the attempt
\* index and the decoder's message is sent, the cache is left as it was,
\* and the call waits retryDelay * 2^i for the next attempt if i < N and
\* fails with the decoder's error if i = N.
C20_DecodeStep ==
    \A c \in CallIds :
        DecodeFailStep(c) =>
            LET r == calls[c]
                q == calls'[c]
            IN /\ r.pc = "json"
               /\ errorLog' = Append(errorLog,
                      [code |-> "API_ERROR", url |-> r.url, attempt |-> r.attempt,
                       error |-> "Unexpected token", call |-> r.id])
               /\ cache' = cache
               /\ q.result = NoResult
               /\ q.lastError.name = "SyntaxError" /\ q.lastError.at = r.attempt
               /\ r.attempt < N =>
                      /\ q.pc = "delay"
                      /\ Timer("delay", r.id, r.attempt,
                               now + config.retryDelay * 2^r.attempt) \in timers'
               /\ r.attempt >= N =>
                      /\ q.pc = "failed"
                      /\ q.thrown.name = "SyntaxError"

C20_DecodeFailureIsFailedAttempt == [][C20_DecodeStep]_vars

C20_Witness ==
    \E c \in CallIds :
        LET r == calls[c]
            reps == Reports(r.id)
        IN /\ r.pc = "done" /\ CacheableGet(r)
           /\ r.outcomes = <<"decode", "success">>
           /\ Len(reps) = 1 /\ reps[1].error = "Unexpected token"
           /\ r.key \in DOMAIN cache
           /\ cache[r.key].data = 2

\* the calls on key k that were answered true
Granted(k) ==
    {i \in 1..Len(limiterLog) : limiterLog[i].key = k /\ limiterLog[i].allowed}

\* the calls on key k answered true before call i and less than timeWindow
\* before the time t
GrantedWithin(k, i, t) ==
    {j \in Granted(k) : j < i /\ t - limiterLog[j].time < limiter.timeWindow}

\* C21: the calls come at non-decreasing times; for each key, a call answered
\* true and the calls answered true less than timeWindow before it number at
\* most maxRequests; a call is answered true exactly when fewer than
\* maxRequests calls on its own key were answered true less than timeWindow
\* before it, so neither a call answered false nor a call on another key
\* counts; a call answered false leaves the map as it was and a call leaves
\* the times stored for every other key as they were.
C21_Answers ==
    /\ \A i, j \in 1..Len(limiterLog) :
           i <= j => limiterLog[i].time <= limiterLog[j].time
    /\ \A i \in 1..Len(limiterLog) :
           LET e == limiterLog[i]
               before == GrantedWithin(e.key, i, e.time)
           IN /\ e.allowed <=> Cardinality(before) < limiter.maxRequests
              /\ e.allowed => Cardinality(before) + 1 <= limiter.maxRequests

C21_CallStep ==
    Len(limiterLog') = Len(limiterLog) + 1 =>
        LET e == limiterLog'[Len(limiterLog')]
        IN /\ ~e.allowed => requests' = requests
           /\ \A k \in DOMAIN requests :
                  k # e.key => k \in DOMAIN requests' /\ requests'[k] = requests[k]
           /\ DOMAIN requests' \subseteq DOMAIN requests \cup {e.key}

C21_RateLimitBound == []C21_Answers /\ [][C21_CallStep]_vars

C21_Witness ==
    /\ limiter.maxRequests = 1
    /\ \E i, j, k, m \in 1..Len(limiterLog) :
           /\ i < j /\ j < k
           /\ limiterLog[i].key = "u1" /\ limiterLog[i].allowed
           /\ limiterLog[j].key = "u1" /\ ~limiterLog[j].allowed
           /\ limiterLog[k].key = "u1" /\ limiterLog[k].allowed
           /\ limiterLog[k].time - limiterLog[j].time < limiter.timeWindow
           /\ limiterLog[m].key = "u2" /\ limiterLog[m].allowed
           /\ limiterLog[m].time = limiterLog[j].time

\* C22: the monitor holds at most 1000 metrics, and what getMetrics returns
\* is the last min(1000, n) of the n metrics recorded so far, in the order
\* they were recorded.
C22_LastThousandKept ==
    LET n == Len(recorded)
        m == Len(GetMetrics)
    IN /\ m <= 1000
       /\ m = Min(n, 1000)
       /\ \A i \in 1..m : GetMetrics[i] = recorded[n - m + i]

C22_Witness ==
    /\ Len(recorded) = 1002
    /\ Len(GetMetrics) = 1000
    /\ GetMetrics[1].value = 3
    /\ GetMetrics[999].name = "API_RESPONSE_TIME"
    /\ GetMetrics[1000].name = "LCP" /\ GetMetrics[1000].value = 7

====
